---------------------------- MODULE Spec2Model ----------------------------
(***************************************************************************)
(* The subscriber boundary of zenoh-c (src/src/subscriber.rs): the opaque  *)
(* owned handle z_owned_subscriber_t, and the declare / check / undeclare  *)
(* lifecycle, together with the native session (zenoh) it drives.          *)
(*                                                                         *)
(* A handle is one machine word holding an Option<Box<Subscriber>>: the    *)
(* word 0 is None (the null-pointer niche), any other word is the address  *)
(* of the boxed native subscriber.  A caller thread calls the boundary     *)
(* functions one at a time; native worker threads deliver events in        *)
(* between.                                                                *)
(***************************************************************************)
EXTENDS Integers, Sequences, FiniteSets, TLC

VARIABLES
    session,       \* session[s]: the word of session handle s (0 = empty)
    sub,           \* sub[h]: the word of subscriber handle h
    callback,      \* the caller's closure slot (0 = the empty closure)
    native,        \* native[r]: the native subscriber boxed at address r
    calls,         \* calls[s]: native calls made on session s
    nEvents,       \* events the native layer has dispatched so far
    subInfoDefault,\* the native SubInfo::default() of this build
    received,      \* received[c]: the samples closure c has been called with, in order
    hist,          \* hist[h]: how handle h came to be, and whether an undeclare returned on it
    last           \* the caller's latest boundary call and what it returned

vars == <<session, sub, callback, native, calls, nEvents, subInfoDefault, received,
          hist, last>>

(***************************************************************************)
(* Bounds of the model.                                                    *)
(***************************************************************************)
MaxHandles == 2
MaxEvents == 2
TeardownCap == 2

\* Two session handles of the caller: one holds an open session, one is empty.
SessionIds == {"open", "empty"}

(***************************************************************************)
(* The status code is an i8.                                               *)
(***************************************************************************)
I8Bits == 8
I8Min == -(2 ^ (I8Bits - 1))
I8Max == (2 ^ (I8Bits - 1)) - 1
I8 == I8Min..I8Max

\* The error numbers a failing native teardown may carry (ErrNo::errno().get()).
ErrNos == {I8Min, -1}

\* What the native resolve of a declaration, or of a teardown, may answer.
Ok == [ok |-> TRUE, errno |-> 0]
Err(e) == [ok |-> FALSE, errno |-> e]
NativeResults == {Ok} \cup {Err(e) : e \in ErrNos}

\* The declaration's error is only logged: one failure stands for all.
DeclareResults == {Ok, Err(I8Min)}

(***************************************************************************)
(* enum z_reliability_t and the native Reliability, and the two From       *)
(* conversions between them.                                               *)
(***************************************************************************)
z_reliability_t == {"BEST_EFFORT", "RELIABLE"}
Reliability == {"BestEffort", "Reliable"}

From_Reliability(r) ==
    CASE r = "BestEffort" -> "BEST_EFFORT"
      [] r = "Reliable" -> "RELIABLE"

\* Faulty variant: the two arms are swapped.
From_z_reliability_t_swapped(val) ==
    CASE val = "BEST_EFFORT" -> "Reliable"
      [] val = "RELIABLE" -> "BestEffort"

From_z_reliability_t(val) ==
    CASE val = "BEST_EFFORT" -> "BestEffort"
      [] val = "RELIABLE" -> "Reliable"

(***************************************************************************)
(* type Subscriber = Option<Box<zenoh::subscriber::Subscriber>> and its    *)
(* reinterpretation as z_owned_subscriber_t([usize; 1]).                   *)
(***************************************************************************)
None == [some |-> FALSE, ptr |-> 0]
Some(p) == [some |-> TRUE, ptr |-> p]

\* impl From<Subscriber> for z_owned_subscriber_t: transmute(sub)
From_Subscriber(s) == IF s.some THEN s.ptr ELSE 0

\* impl AsRef<Subscriber> / AsMut<Subscriber>: transmute(self)
as_ref(w) == IF w = 0 THEN None ELSE Some(w)

is_some(s) == s.some

z_owned_subscriber_t_new(p) == From_Subscriber(Some(p))

z_owned_subscriber_t_null == From_Subscriber(None)

\* How the sources write each reinterpretation of the subscriber handle: the
\* three impls call std::mem::transmute; none is declared with
\* define_guarded_transmute!, whose GuardedTransmute::transmute is the one
\* that asserts equal alignments when the crate is built.
GuardedTransmute == "GuardedTransmute::transmute"

TransmuteOf ==
    [From |-> "std::mem::transmute",
     AsRef |-> "std::mem::transmute",
     AsMut |-> "std::mem::transmute"]

\* The reinterpretations each boundary function goes through.
Reinterprets ==
    [null |-> {"From"}, declare |-> {"From"}, check |-> {"AsRef"}, undeclare |-> {"AsMut"}]

\* Faulty variant: a null that is not the None word.
z_subscriber_null_dangling == z_owned_subscriber_t_new(1)
z_subscriber_null == z_owned_subscriber_t_null

\* Faulty variant: is_none() for is_some().
z_subscriber_check_is_none(w) == ~is_some(as_ref(w))

z_subscriber_check(w) == is_some(as_ref(w))

\* z_subscriber_options_default(): SubInfo::default().reliability.into()
z_subscriber_options_default == [reliability |-> From_Reliability(subInfoDefault.reliability)]

NULL == [null |-> TRUE]
OptionsArgs == {NULL} \cup {[null |-> FALSE, reliability |-> r] : r \in z_reliability_t}

\* The caller's closure slot: 0 is z_owned_closure_sample_t::empty().
EmptyClosure == 0

\* The closures the caller makes, one for each handle it may still create.
ClosureIds == 1..MaxHandles

(***************************************************************************)
(* The native session, as the boundary uses it.                            *)
(*   s.declare_subscriber(keyexpr).callback(f).reliability(r).res()        *)
(*   sub.undeclare().res_sync()                                            *)
(* A native subscriber is registered from a successful res() until its     *)
(* teardown; the session dispatches events to registered subscribers only, *)
(* and the synchronous teardown returns once no callback of the subscriber *)
(* is running.                                                             *)
(***************************************************************************)
BuilderCalls == 4

\* A native sample: its key expression, and its payload, a buffer of zero or
\* more slices.
Sample(k, zbuf) == [key_expr |-> k, payload |-> zbuf]

PlainSample == Sample("a/b", << <<65>>, <<66, 67>> >>)

Samples == {PlainSample, Sample("a", <<>>)}

\* queue: the events received for the subscriber whose callback has not run
\* yet, oldest first; arrived: every event received for it, oldest first.
NewNative(s, closure) ==
    [session |-> s, closure |-> closure,
     registered |-> TRUE, teardowns |-> 0, queue |-> <<>>, arrived |-> <<>>,
     invoked |-> 0]

\* The native subscribers after declare_subscriber(..).res() answered res.
declare_subscriber_res(s, closure, res) ==
    IF res.ok THEN Append(native, NewNative(s, closure)) ELSE native

\* Whether the synchronous teardown of r can return now.
undeclare_res_sync_ready(r) == native[r].queue = <<>>

\* The native subscribers after undeclare().res_sync() of r.
undeclare_res_sync(r) ==
    [native EXCEPT ![r].registered = FALSE,
                   ![r].teardowns = IF @ < TeardownCap THEN @ + 1 ELSE @]

(***************************************************************************)
(* The caller's record of its calls.                                       *)
(***************************************************************************)
NoCall == [op |-> "none", h |-> 0, pre |-> 0, ret |-> 0, nat |-> "none", errno |-> 0,
           opts |-> "none", reliability |-> "none"]

Call(op, h, pre, ret, nat, errno) ==
    [op |-> op, h |-> h, pre |-> pre, ret |-> ret, nat |-> nat, errno |-> errno,
     opts |-> "none", reliability |-> "none"]

\* A declare that reached the native session: the options passed, and the
\* reliability the builder was given.
DeclareCall(h, ret, res, opts, reliability) ==
    [op |-> "declare", h |-> h, pre |-> 0, ret |-> ret,
     nat |-> IF res.ok THEN "ok" ELSE "err", errno |-> res.errno,
     opts |-> opts, reliability |-> reliability]

Born(how, r, s, c) ==
    [how |-> how, res |-> r, session |-> s, closure |-> c, undeclared |-> FALSE]

Init ==
    /\ session = [s \in SessionIds |-> IF s = "open" THEN 1 ELSE 0]
    /\ subInfoDefault \in {[reliability |-> r] : r \in Reliability}
    /\ sub = <<>>
    /\ callback = EmptyClosure
    /\ native = <<>>
    /\ calls = [s \in SessionIds |-> 0]
    /\ nEvents = 0
    /\ received = [c \in ClosureIds |-> <<>>]
    /\ hist = <<>>
    /\ last = NoCall

(***************************************************************************)
(* The caller puts a closure of its own in its closure slot.               *)
(***************************************************************************)
MakeClosure ==
    /\ callback = EmptyClosure
    /\ Len(sub) < MaxHandles
    /\ callback' = Len(sub) + 1
    /\ UNCHANGED <<session, sub, native, calls, nEvents, subInfoDefault, received, hist, last>>

(***************************************************************************)
(* z_subscriber_null(): a new handle in the empty state.                   *)
(***************************************************************************)
Null ==
    /\ Len(sub) < MaxHandles
    /\ sub' = Append(sub, z_subscriber_null)
    /\ hist' = Append(hist, Born("null", 0, "none", EmptyClosure))
    /\ last' = Call("null", Len(sub) + 1, 0, z_subscriber_null, "none", 0)
    /\ UNCHANGED <<session, callback, native, calls, nEvents, subInfoDefault, received>>

(***************************************************************************)
(* z_declare_subscriber(session, keyexpr, callback, opts).  res is what the *)
(* native resolve answers if it is reached.                                *)
(***************************************************************************)
\* Faulty variant: the session is used without the check.
session_as_ref_unchecked(w) == TRUE

\* session.as_ref(): whether the session handle, read as an Option, is Some.
session_as_ref(w) == w /= 0

\* Faulty variants: the error arm wraps a subscriber; the arms are swapped.
match_res_always_new(res, r) == z_owned_subscriber_t_new(r)
match_res_swapped(res, r) ==
    IF res.ok THEN z_owned_subscriber_t_null ELSE z_owned_subscriber_t_new(r)

\* match res { Ok(sub) => z_owned_subscriber_t::new(sub), Err(e) => null() }
match_res(res, r) ==
    IF res.ok THEN z_owned_subscriber_t_new(r) ELSE z_owned_subscriber_t_null

\* if opts.is_null() { let default = z_subscriber_options_default();
\*                      opts = &default; }
\* let reliability: Reliability = (*opts).reliability.into();
\* With a null opts the pointer read on the second line is to default, a
\* local of the block that has ended: the read is of dead storage, and
\* dangling is the value it finds there.
opts_reliability(opts, dangling) ==
    From_z_reliability_t(IF opts.null THEN dangling ELSE opts.reliability)

\* Faulty variant: the closure is copied out of the caller's slot.
mem_swap_copies(slot) == slot

\* std::mem::swap(callback, &mut closure), closure being empty(): the
\* caller's slot afterwards.
mem_swap(slot) == EmptyClosure

z_declare_subscriber(s, opts, dangling, res) ==
    LET h == Len(sub) + 1
        closure == callback
        r == Len(native) + 1
    IN  /\ Len(sub) < MaxHandles
        /\ callback' = mem_swap(callback)
        /\ IF session_as_ref(session[s])
           THEN /\ calls' = [calls EXCEPT ![s] = @ + BuilderCalls]
                /\ native' = declare_subscriber_res(s, closure, res)
                /\ sub' = Append(sub, match_res(res, r))
                /\ hist' = Append(hist, IF res.ok THEN Born("declared", r, s, closure)
                                                  ELSE Born("native_err", 0, s, closure))
                /\ last' = DeclareCall(h, match_res(res, r), res, opts,
                                        opts_reliability(opts, dangling))
           ELSE /\ sub' = Append(sub, z_owned_subscriber_t_null)
                /\ hist' = Append(hist, Born("invalid_session", 0, s, closure))
                /\ last' = Call("declare", h, 0, z_owned_subscriber_t_null, "none", 0)
                /\ UNCHANGED <<native, calls>>
        /\ UNCHANGED <<session, nEvents, subInfoDefault, received>>

Declare == \E s \in SessionIds, opts \in OptionsArgs, dangling \in z_reliability_t,
              res \in DeclareResults :
               z_declare_subscriber(s, opts, dangling, res)

(***************************************************************************)
(* z_undeclare_subscriber(sub).  res is what the native teardown answers   *)
(* if it is reached.                                                       *)
(***************************************************************************)
\* Faulty variant: the subscriber is borrowed, not taken.
take_keeps(w) == w

\* sub.as_mut().take(): the handle's word after the take.
take(w) == From_Subscriber(None)

\* Faulty variant: the teardown's error is logged and dropped.
status_swallowed(res) == 0

\* if let Err(e) = .. { return e.errno().get() } .. 0
status(res) == IF res.ok THEN 0 ELSE res.errno

\* Faulty variant: every handle is emptied.
taken_all(h) == [x \in DOMAIN sub |-> take(sub[x])]

\* The handles after the take on handle h.
taken(h) == [sub EXCEPT ![h] = take(@)]

\* Faulty variant: the subscriber is taken and forgotten, with no teardown.
z_undeclare_subscriber_forget(h, res) ==
    /\ res = Ok
    /\ sub' = taken(h)
    /\ hist' = [hist EXCEPT ![h].undeclared = TRUE]
    /\ last' = Call("undeclare", h, sub[h], 0, "none", 0)
    /\ UNCHANGED <<session, callback, native, calls, nEvents, subInfoDefault, received>>

\* Faulty variant: the handle is emptied only when the teardown succeeds.
z_undeclare_subscriber_take_on_ok(h, res) ==
    LET s == as_ref(sub[h])
    IN  /\ IF is_some(s)
           THEN /\ undeclare_res_sync_ready(s.ptr)
                /\ sub' = IF res.ok THEN taken(h) ELSE sub
                /\ native' = undeclare_res_sync(s.ptr)
                /\ last' = Call("undeclare", h, sub[h], status(res),
                                IF res.ok THEN "ok" ELSE "err", res.errno)
           ELSE /\ res = Ok
                /\ sub' = sub
                /\ native' = native
                /\ last' = Call("undeclare", h, sub[h], 0, "none", 0)
        /\ hist' = [hist EXCEPT ![h].undeclared = TRUE]
        /\ UNCHANGED <<session, callback, calls, nEvents, subInfoDefault, received>>

\* Faulty variant: the teardown of a subscriber closes its session.
z_undeclare_subscriber_closes_session(h, res) ==
    LET s == as_ref(sub[h])
    IN  /\ is_some(s)
        /\ undeclare_res_sync_ready(s.ptr)
        /\ sub' = taken(h)
        /\ native' = undeclare_res_sync(s.ptr)
        /\ session' = [session EXCEPT ![native[s.ptr].session] = 0]
        /\ last' = Call("undeclare", h, sub[h], status(res),
                        IF res.ok THEN "ok" ELSE "err", res.errno)
        /\ hist' = [hist EXCEPT ![h].undeclared = TRUE]
        /\ UNCHANGED <<callback, calls, nEvents, subInfoDefault, received>>

\* The take and the teardown are one step of the caller: the call returns
\* when the synchronous teardown does.  On an empty handle the teardown is
\* not reached, and res is not drawn.
z_undeclare_subscriber(h, res) ==
    LET s == as_ref(sub[h])
    IN  /\ IF is_some(s)
           THEN /\ undeclare_res_sync_ready(s.ptr)
                /\ sub' = taken(h)
                /\ native' = undeclare_res_sync(s.ptr)
                /\ last' = Call("undeclare", h, sub[h], status(res),
                                IF res.ok THEN "ok" ELSE "err", res.errno)
           ELSE /\ res = Ok
                /\ sub' = sub
                /\ native' = native
                /\ last' = Call("undeclare", h, sub[h], 0, "none", 0)
        /\ hist' = [hist EXCEPT ![h].undeclared = TRUE]
        /\ UNCHANGED <<session, callback, calls, nEvents, subInfoDefault, received>>

Undeclare == \E h \in DOMAIN sub, res \in NativeResults : z_undeclare_subscriber(h, res)

(***************************************************************************)
(* z_subscriber_check(sub)                                                 *)
(***************************************************************************)
\* Faulty variant: the check takes the subscriber out of the handle.
Check_taking ==
    \E h \in DOMAIN sub :
        /\ last' = Call("check", h, sub[h], z_subscriber_check(sub[h]), "none", 0)
        /\ sub' = taken(h)
        /\ UNCHANGED <<session, callback, native, calls, nEvents,
                       subInfoDefault, received, hist>>

Check ==
    \E h \in DOMAIN sub :
        /\ last' = Call("check", h, sub[h], z_subscriber_check(sub[h]), "none", 0)
        /\ UNCHANGED <<session, sub, callback, native, calls, nEvents,
                       subInfoDefault, received, hist>>

(***************************************************************************)
(* The native worker threads.  Dispatch: the session picks up an event for *)
(* a registered subscriber.  Invoke: the callback registered by declare    *)
(* runs, and calls z_closure_sample_call(&closure, &sample).               *)
(***************************************************************************)
\* sample.payload.contiguous(): the slices of the buffer, joined.
RECURSIVE contiguous(_)
contiguous(zbuf) ==
    IF zbuf = <<>> THEN <<>> ELSE Head(zbuf) \o contiguous(Tail(zbuf))

\* Faulty variant: only the first slice of the buffer is taken.
payload_first_slice(sample) ==
    IF sample.payload = <<>> THEN <<>> ELSE Head(sample.payload)

\* let payload = sample.payload.contiguous();
payload_contiguous(sample) == contiguous(sample.payload)

\* z_bytes_t { start: payload.as_ptr(), len: payload.len() }: start stands
\* for the memory at that address.
z_bytes_t(payload) == [start |-> payload, len |-> Len(payload)]

\* The bytes a reader of a z_bytes_t sees: len bytes from start.
bytes_of(b) == SubSeq(b.start, 1, b.len)

\* (&sample.key_expr).into(): the borrowed key expression as a z_keyexpr_t.
From_KeyExpr(k) == [suffix |-> k]

z_sample_t(keyexpr, payload) == [keyexpr |-> keyexpr, payload |-> payload]

\* z_closure_sample_call(&closure, &sample): the closure's record of its
\* calls afterwards.  Calling the empty closure does nothing.
z_closure_sample_call(closure, sample) ==
    IF closure = EmptyClosure
    THEN received
    ELSE [received EXCEPT ![closure] = Append(@, sample)]

\* Faulty variant: the callback does not call the closure.
callback_drops(closure, sample) == received

\* The callback given to the builder, run on one native sample.
callback_run(closure, sample) ==
    LET payload == payload_contiguous(sample)
        bytes == z_bytes_t(payload)
    IN  z_closure_sample_call(closure, z_sample_t(From_KeyExpr(sample.key_expr), bytes))

\* The session receives sample for the registered subscriber r.
Deliver(r, sample) ==
    /\ nEvents < MaxEvents
    /\ native[r].registered
    /\ native' = [native EXCEPT ![r].queue = Append(@, sample),
                                ![r].arrived = Append(@, sample)]
    /\ nEvents' = nEvents + 1
    /\ UNCHANGED <<session, sub, callback, calls, subInfoDefault, received, hist, last>>

\* Every event carries the same sample: what the handles go through does
\* not depend on what the events carry.
Dispatch == \E r \in DOMAIN native : Deliver(r, PlainSample)

\* The events carry any of the samples.
DispatchSample == \E r \in DOMAIN native, sample \in Samples : Deliver(r, sample)

Invoke ==
    \E r \in DOMAIN native :
        /\ native[r].queue /= <<>>
        /\ native' = [native EXCEPT ![r].queue = Tail(@), ![r].invoked = @ + 1]
        /\ received' = callback_run(native[r].closure, Head(native[r].queue))
        /\ UNCHANGED <<session, sub, callback, calls, nEvents, subInfoDefault, hist, last>>

Next == MakeClosure \/ Null \/ Declare \/ Undeclare \/ Check \/ Dispatch \/ Invoke

Spec == Init /\ [][Next]_vars

\* The delivery of samples: the caller declares and undeclares, and the
\* events carry any of the samples.
NextSamples == MakeClosure \/ Declare \/ Undeclare \/ DispatchSample \/ Invoke

SpecSamples == Init /\ [][NextSamples]_vars


(***************************************************************************)
(* Properties.                                                             *)
(***************************************************************************)
Declared(h) == hist[h].how = "declared"

\* The handles whose word is the address of native subscriber r.
Owners(r) == {h \in DOMAIN sub : sub[h] = r}

\* The handle that declare returned for native subscriber r.
HandleOf(r) == CHOOSE h \in DOMAIN hist : hist[h].res = r

\* A step in which the caller's call op on handle h returns.  (The native
\* worker steps and the filling of the closure slot leave last, sub and hist
\* as they are.)
CallReturns(op, h) ==
    /\ last'.op = op
    /\ last'.h = h
    /\ <<last', sub', hist'>> /= <<last, sub, hist>>

\* C1: a successfully declared handle checks true right after
\* z_declare_subscriber returns, and checks false right after
\* z_undeclare_subscriber returns on it.
C1_CheckFollowsLifecycle ==
    /\ (last.op = "declare" /\ last.nat = "ok") => z_subscriber_check(sub[last.h]) = TRUE
    /\ (last.op = "undeclare" /\ Declared(last.h)) => z_subscriber_check(sub[last.h]) = FALSE

C1_Witness ==
    /\ last.op = "undeclare"
    /\ Declared(last.h)
    /\ last.pre /= 0
    /\ z_subscriber_check(last.pre)

\* C2: an undeclare that directly follows an undeclare of the same handle
\* returns 0, whatever the first one returned.
C2_SecondUndeclareReturnsZero ==
    [][\A h \in DOMAIN sub :
          (last.op = "undeclare" /\ last.h = h /\ CallReturns("undeclare", h))
              => last'.ret = 0]_vars

C2_Witness ==
    /\ last.op = "undeclare"
    /\ Declared(last.h)
    /\ last.pre = 0
    /\ last.ret = 0
    /\ native[hist[last.h].res].teardowns = 1

\* C3: a native subscriber is torn down at most once, and only by the
\* undeclare of the handle that owns it; it is owned by exactly one handle
\* until then and by none afterwards, its handle being empty.
C3_Ownership ==
    \A r \in DOMAIN native :
        /\ native[r].teardowns <= 1
        /\ native[r].teardowns = 0 =>
              /\ Owners(r) = {HandleOf(r)}
              /\ z_subscriber_check(sub[HandleOf(r)])
        /\ native[r].teardowns = 1 =>
              /\ Owners(r) = {}
              /\ sub[HandleOf(r)] = z_owned_subscriber_t_null
              /\ hist[HandleOf(r)].undeclared

C3_TeardownStep ==
    \A r \in DOMAIN native :
        native'[r].teardowns /= native[r].teardowns =>
            /\ last'.op = "undeclare"
            /\ sub[last'.h] = r
            /\ sub'[last'.h] = z_owned_subscriber_t_null

C3_TeardownAtMostOnceByOwner == []C3_Ownership /\ [][C3_TeardownStep]_vars

C3_Witness ==
    \E r \in DOMAIN native :
        /\ native[r].teardowns = 1
        /\ last.op = "undeclare"
        /\ last.h = HandleOf(r)
        /\ last.pre = 0

\* C4: when the native teardown fails, the handle is empty after the call
\* and no handle holds the subscriber any more.
C4_FailedTeardownEmptiesHandle ==
    (last.op = "undeclare" /\ last.nat = "err") =>
        /\ z_subscriber_check(sub[last.h]) = FALSE
        /\ Owners(last.pre) = {}

C4_Witness ==
    /\ last.op = "undeclare"
    /\ last.nat = "err"
    /\ last.pre /= 0

\* C5: z_undeclare_subscriber returns 0 exactly when the handle was empty or
\* the native teardown succeeded; a failing teardown's error number is
\* returned as it is, a nonzero i8.
C5_UndeclareStatus ==
    last.op = "undeclare" =>
        /\ last.ret = 0 <=> (last.pre = 0 \/ last.nat = "ok")
        /\ last.pre = 0 => last.nat = "none"
        /\ last.nat = "err" => /\ last.ret = last.errno
                               /\ last.ret \in I8 \ {0}

C5_Witness ==
    /\ last.op = "undeclare"
    /\ last.nat = "err"
    /\ last.ret = I8Min

\* C6: a declare on an empty session handle returns the empty handle and
\* makes no call on any native session.
C6_DeclareStep(s) ==
    /\ session[s] = 0
    /\ CallReturns("declare", Len(sub) + 1)
    /\ hist'[Len(sub')].session = s

C6_InvalidSessionNoNativeCall ==
    [][\A s \in SessionIds :
          C6_DeclareStep(s) =>
              /\ sub'[Len(sub')] = z_subscriber_null
              /\ z_subscriber_check(sub'[Len(sub')]) = FALSE
              /\ calls' = calls
              /\ native' = native]_vars

C6_Witness ==
    /\ last.op = "declare"
    /\ hist[last.h].how = "invalid_session"
    /\ hist[last.h].closure /= EmptyClosure
    /\ calls["open"] > 0

\* C7: with a valid session, a failing native declaration yields the empty
\* handle, and a successful one yields a handle holding exactly the
\* subscriber the native call produced.
C7_DeclareResult ==
    last.op = "declare" =>
        /\ last.nat = "err" =>
              /\ last.ret = z_subscriber_null
              /\ z_subscriber_check(sub[last.h]) = FALSE
        /\ last.nat = "ok" =>
              /\ z_subscriber_check(last.ret)
              /\ as_ref(last.ret).ptr = Len(native)
              /\ native[Len(native)].closure = hist[last.h].closure
              /\ native[Len(native)].session = hist[last.h].session
              /\ sub[last.h] = last.ret

C7_Witness ==
    /\ last.op = "declare"
    /\ last.nat = "err"
    /\ Len(native) > 0

\* C8: the null handle checks false, and constructing it changes nothing
\* else and is always possible.
C8_NullStep ==
    CallReturns("null", Len(sub) + 1) =>
        /\ z_subscriber_check(sub'[Len(sub')]) = FALSE
        /\ \A h \in DOMAIN sub : sub'[h] = sub[h]
        /\ native' = native /\ calls' = calls /\ session' = session
        /\ callback' = callback

C8_NullChecksFalse ==
    /\ [](z_subscriber_check(z_subscriber_null) = FALSE)
    /\ [](Len(sub) < MaxHandles => ENABLED Null)
    /\ [][C8_NullStep]_vars

C8_Witness ==
    /\ last.op = "null"
    /\ Len(native) > 0
    /\ \E h \in DOMAIN sub : z_subscriber_check(sub[h])

\* C9: once z_undeclare_subscriber has returned on the handle of a native
\* subscriber, that subscriber's callback is not invoked again.
Returned(r) == \E h \in DOMAIN hist : hist[h].res = r /\ hist[h].undeclared

C9_NoCallbackAfterUndeclare ==
    [][\A r \in DOMAIN native :
          Returned(r) => native'[r].invoked = native[r].invoked]_vars

C9_Witness ==
    \E r \in DOMAIN native :
        /\ Returned(r)
        /\ native[r].invoked > 0
        /\ nEvents < MaxEvents

\* C10: undeclaring one handle leaves every other handle, its check and
\* the native subscriber it owns as they were.
C10_UndeclareFrame ==
    [][\A a \in DOMAIN sub : \A b \in DOMAIN sub :
          (a /= b /\ CallReturns("undeclare", a)) =>
              /\ sub'[b] = sub[b]
              /\ z_subscriber_check(sub'[b]) = z_subscriber_check(sub[b])
              /\ sub[b] /= 0 => native'[sub[b]] = native[sub[b]]]_vars

C10_Witness ==
    /\ last.op = "undeclare"
    /\ last.pre /= 0
    /\ \E b \in DOMAIN sub :
          /\ b /= last.h
          /\ Declared(b)
          /\ hist[b].session = hist[last.h].session
          /\ z_subscriber_check(sub[b])

\* A declare that reached the native session's builder.
DeclareBuilt == last.op = "declare" /\ last.nat /= "none"

\* C11: a declare with null options gives the builder the reliability of
\* the default options, as a declare with the default options record does.
C11_NullOptsAreDefault ==
    (DeclareBuilt /\ last.opts = NULL) =>
        last.reliability = From_z_reliability_t(z_subscriber_options_default.reliability)

\* C12: the two conversions between z_reliability_t and the native
\* Reliability are inverse to each other, so each value has exactly one
\* counterpart; the reliability a declare gives the builder converts back to
\* the one in the options passed, and the default options to the native
\* default.
C12_ReliabilityRoundTrip ==
    /\ \A v \in z_reliability_t :
          /\ From_z_reliability_t(v) \in Reliability
          /\ From_Reliability(From_z_reliability_t(v)) = v
    /\ \A r \in Reliability :
          /\ From_Reliability(r) \in z_reliability_t
          /\ From_z_reliability_t(From_Reliability(r)) = r
    /\ (DeclareBuilt /\ last.opts /= NULL) =>
          From_Reliability(last.reliability) = last.opts.reliability
    /\ From_z_reliability_t(z_subscriber_options_default.reliability)
           = subInfoDefault.reliability

C12_Witness ==
    /\ DeclareBuilt
    /\ last.opts /= NULL
    /\ last.opts.reliability = "BEST_EFFORT"
    /\ last.reliability = "BestEffort"
    /\ subInfoDefault.reliability = "Reliable"

\* C13: when z_declare_subscriber returns, the caller's closure slot is
\* empty, and the closure that was in it is the one the native subscriber
\* was registered with, if one was registered.
C13_ClosureMovedOut ==
    [][CallReturns("declare", Len(sub) + 1) =>
          /\ callback' = EmptyClosure
          /\ last'.nat = "ok" => native'[Len(native')].closure = callback]_vars

C13_Witness ==
    /\ last.op = "declare"
    /\ last.nat = "ok"
    /\ callback = EmptyClosure
    /\ native[Len(native)].closure /= EmptyClosure
    /\ native[Len(native)].closure = last.h

\* The length of a buffer: the sum of the lengths of its slices.
RECURSIVE SumLen(_)
SumLen(zbuf) == IF zbuf = <<>> THEN 0 ELSE Len(Head(zbuf)) + SumLen(Tail(zbuf))

\* C14: the closure of a native subscriber has been called exactly once for
\* each event of the subscriber whose callback has run, in the order the
\* session received them, and the events not yet passed on are the latest.
C14_OncePerEventInOrder ==
    \A r \in DOMAIN native :
        LET c == native[r].closure
            n == native[r].invoked
        IN  c /= EmptyClosure =>
                /\ Len(received[c]) = n
                /\ n + Len(native[r].queue) = Len(native[r].arrived)
                /\ \A i \in 1..n :
                      /\ received[c][i].keyexpr.suffix = native[r].arrived[i].key_expr
                      /\ received[c][i].payload.len = SumLen(native[r].arrived[i].payload)
                /\ \A i \in 1..Len(native[r].queue) :
                      native[r].queue[i] = native[r].arrived[n + i]

C14_Witness ==
    \E r \in DOMAIN native :
        /\ native[r].closure /= EmptyClosure
        /\ Len(received[native[r].closure]) = 2
        /\ native[r].arrived[1] /= native[r].arrived[2]

\* C15: the sample a closure is called with has a payload of the native
\* sample's length, holding the bytes of its slices in order, and the
\* native sample's key expression.
C15_SampleView ==
    \A r \in DOMAIN native :
        LET c == native[r].closure
        IN  c /= EmptyClosure =>
                \A i \in 1..Len(received[c]) :
                    LET zs == received[c][i]
                        ev == native[r].arrived[i]
                    IN  /\ zs.payload.len = SumLen(ev.payload)
                        /\ Len(bytes_of(zs.payload)) = zs.payload.len
                        /\ \A k \in 1..Len(ev.payload) : \A j \in 1..Len(ev.payload[k]) :
                              bytes_of(zs.payload)[SumLen(SubSeq(ev.payload, 1, k - 1)) + j]
                                  = ev.payload[k][j]
                        /\ zs.keyexpr.suffix = ev.key_expr

C15_Witness ==
    \E c \in ClosureIds : \E i \in 1..Len(received[c]) : \E j \in 1..Len(received[c]) :
        /\ received[c][i].payload.len = 3
        /\ bytes_of(received[c][i].payload) = <<65, 66, 67>>
        /\ received[c][j].payload.len = 0


\* C16: every reinterpretation of the subscriber handle that a boundary
\* call goes through is a guarded transmute, the one whose alignment
\* assertion is evaluated when the crate is built.
C16_ReinterpretationsGuarded ==
    last.op /= "none" =>
        \A c \in Reinterprets[last.op] : TransmuteOf[c] = GuardedTransmute

\* C17: an empty handle stays empty, and every check of it returns false:
\* nothing done to an existing handle populates it.
C17_EmptyStaysEmpty ==
    [][\A h \in DOMAIN sub :
          sub[h] = z_owned_subscriber_t_null =>
              /\ sub'[h] = z_owned_subscriber_t_null
              /\ CallReturns("check", h) => last'.ret = FALSE]_vars

C17_Witness ==
    /\ last.op = "check"
    /\ last.ret = FALSE
    /\ Declared(last.h)
    /\ hist[last.h].undeclared
    /\ native[hist[last.h].res].teardowns = 1

\* C18: z_subscriber_check changes nothing; it returns true exactly when
\* the handle owns a native subscriber that has not been torn down, and a
\* check that directly follows a check of the same handle returns the same.
C18_CheckIsPure ==
    [][\A h \in DOMAIN sub :
          CallReturns("check", h) =>
              /\ UNCHANGED <<session, sub, callback, native, calls, nEvents,
                             subInfoDefault, received, hist>>
              /\ last'.ret = (\E r \in DOMAIN native :
                                 sub[h] = r /\ native[r].teardowns = 0)
              /\ (last.op = "check" /\ last.h = h) => last'.ret = last.ret]_vars

C18_Witness ==
    /\ last.op = "check"
    /\ last.ret = TRUE
    /\ \E b \in DOMAIN sub :
          /\ b /= last.h
          /\ Declared(b)
          /\ sub[b] = z_owned_subscriber_t_null

\* C19: no step changes a session handle, and a session on which a
\* subscriber was declared stays valid, whatever is undeclared.
C19_SessionOnlyRead ==
    /\ [][session' = session]_vars
    /\ [](\A r \in DOMAIN native : session[native[r].session] /= 0)

C19_Witness ==
    /\ last.op = "declare"
    /\ last.nat = "ok"
    /\ Len(native) > 1
    /\ \A r \in DOMAIN native :
          r /= Len(native) =>
              /\ native[r].teardowns = 1
              /\ native[r].session = native[Len(native)].session

\* C20: the closure passed to a declare that returned the empty handle, the
\* session being invalid or the native declaration failing, is never
\* called; a closure that has been called is that of a native subscriber.
C20_FailedDeclareClosureNeverCalled ==
    /\ \A h \in DOMAIN hist :
          (/\ hist[h].how /= "null"
           /\ hist[h].closure /= EmptyClosure
           /\ (session[hist[h].session] = 0 \/ hist[h].how = "native_err"))
              => received[hist[h].closure] = <<>>
    /\ \A c \in ClosureIds :
          received[c] /= <<>> => \E r \in DOMAIN native : native[r].closure = c

C20_Witness ==
    \E a \in DOMAIN hist : \E b \in DOMAIN hist :
        /\ hist[a].how = "invalid_session"
        /\ hist[a].closure /= EmptyClosure
        /\ Declared(b)
        /\ hist[b].closure /= EmptyClosure
        /\ received[hist[b].closure] /= <<>>


=============================================================================
